---------------------------- MODULE Spec2Model ----------------------------
(***************************************************************************)
(* State-machine model of the AC97 PCI audio device shell, Ac97Dev         *)
(* (devices/src/pci/ac97.rs), and of the virtio-video encoder stub,        *)
(* Encoder (devices/src/virtio/video/encoder/mod.rs).                      *)
(*                                                                         *)
(* The shell's own code (BAR classification, access-width dispatch,        *)
(* little-endian packing, the deferred hand-off of the interrupt event     *)
(* handles, BAR allocation) is translated from ac97.rs.  Its collaborators *)
(* PciConfiguration, Ac97Mixer, Ac97BusMaster, SystemAllocator and the     *)
(* register constants of ac97_regs are not part of the sources at hand;    *)
(* they are modelled from the design document (spec.md) and are marked so  *)
(* where they are defined.                                                 *)
(***************************************************************************)
EXTENDS Integers, Sequences, FiniteSets, TLC

(***************************************************************************)
(* Bounds of the model.                                                    *)
(***************************************************************************)
\* Number of assign_irq calls explored (each call brings a fresh pair of handles).
MaxAssign == 2
\* Size of the low-MMIO pool, in blocks of MASTER_REGS_SIZE bytes.
PoolBlocks == 3

(***************************************************************************)
(* Program constants.                                                      *)
(***************************************************************************)
\* tests::create: add_low_mmio_addresses(0x2000_0000, ..)
PoolBase == 536870912
\* ac97_regs (modelled from the design document): sizes of the two windows.
MIXER_REGS_SIZE == 256
MASTER_REGS_SIZE == 1024
\* ac97_regs: bus-master registers of the playback stream used by the model:
\* descriptor-list base (32 bit), last valid index (8 bit), status (16 bit).
PO_BDBAR_10 == 16
PO_LVI_15 == 21
PO_SR_16 == 22
\* ac97_regs: the registers of the capture stream, which are also the offsets
\* of a stream's registers from its base; position register of playback.
PI_BDBAR_00 == 0
PI_CIV_04 == 4
PI_LVI_05 == 5
PI_SR_06 == 6
PI_PICB_08 == 8
PI_CR_0B == 11
PO_PICB_18 == 24
\* Control register: run bit.  Status register: buffer-completion interrupt.
CR_RPBM == 1
SR_BCIS == 8
\* Entries of a descriptor list.
RING_LEN == 32
\* ac97_regs: mixer master-volume register and its mute bit.
MIXER_MASTER_VOL_MUTE_02 == 2
\* Status register: DMA-controller-halted bit, and the write-one-to-clear bits.
SR_DCH == 1
SR_INT_BITS == {2, 3, 4}
\* PciConfiguration: index of the command/status register.
COMMAND_REG == 1

(***************************************************************************)
(* Option<T>: None is the empty sequence, Some(x) the one-element one.     *)
(***************************************************************************)
None == << >>
Some(x) == << x >>

(***************************************************************************)
(* Integer conversions of the shell, as the code computes them.            *)
(***************************************************************************)
\* `val as u8`
AsU8(v) == v % 256

\* u16::from(data[0]) | u16::from(data[1]) << 8
\* (bytes are below 256, so the bitwise "or" of the shifted bytes is their sum)
LeU16(data) == data[1] + data[2] * 256

\* u32::from(data[0]) | u32::from(data[1]) << 8 | .. << 16 | .. << 24
\* (a byte shifted by at most 24 bits stays within 32 bits; the values explored
\* keep the top byte below 128, within the integers of the model checker)
LeU32(data) == data[1] + data[2] * 256 + data[3] * 65536 + data[4] * 16777216

\* data[0] = val as u8; data[1] = (val >> 8) as u8;
PutU16(data, val) == [data EXCEPT ![1] = AsU8(val), ![2] = AsU8(val \div 256)]

\* data[0] = val as u8; .. data[3] = (val >> 24) as u8;
PutU32(data, val) ==
    [data EXCEPT ![1] = AsU8(val), ![2] = AsU8(val \div 256),
                 ![3] = AsU8(val \div 65536), ![4] = AsU8(val \div 16777216)]

\* Bit k of v.
Bit(v, k) == (v \div (2 ^ k)) % 2

\* One collaborator call made by a handler, as it is logged in `events`.
Call(fn, args) == [fn |-> fn, args |-> args]


(***************************************************************************)
(* PciConfiguration (configuration-space register bank).  Modelled from    *)
(* the design document: it keeps the interrupt routing, one base address   *)
(* per BAR that is set when the BAR is registered and is immutable         *)
(* afterwards, rejects a BAR index that is already registered, and has a   *)
(* guest-writable command register.  A BAR register that was never         *)
(* registered reads as zero.                                               *)
(***************************************************************************)
PciConfiguration_new ==
    [irq_line |-> 0, irq_pin |-> "None",
     bar_used |-> << FALSE, FALSE >>, bar_addr |-> << 0, 0 >>, command |-> 0]

set_irq(cfg, line, pin) == [cfg EXCEPT !.irq_line = line, !.irq_pin = pin]

\* Result<usize>: [ok, cfg]
add_pci_bar(cfg, bar) ==
    IF cfg.bar_used[bar.reg_idx + 1]
    THEN [ok |-> FALSE, cfg |-> cfg]
    ELSE [ok |-> TRUE,
          cfg |-> [cfg EXCEPT !.bar_used[bar.reg_idx + 1] = TRUE,
                              !.bar_addr[bar.reg_idx + 1] = bar.addr]]

get_bar_addr(cfg, bar_num) == cfg.bar_addr[bar_num + 1]

read_reg(cfg, reg_idx) == IF reg_idx = COMMAND_REG THEN cfg.command ELSE 0

write_reg(cfg, reg_idx, offset, data) ==
    IF reg_idx = COMMAND_REG /\ offset = 0 /\ Len(data) = 2
    THEN [cfg EXCEPT !.command = LeU16(data)]
    ELSE cfg

(***************************************************************************)
(* Ac97Mixer (mixer register bank).  Modelled from the design document:    *)
(* one 16-bit value per even offset of the window, zero until written.     *)
(* The bank is kept sparse: its domain is the set of offsets written.      *)
(***************************************************************************)
Ac97Mixer_new == << >>

MixerOffsetValid(offset) == offset % 2 = 0 /\ offset < MIXER_REGS_SIZE

Mixer_readw(mixer, offset) == IF offset \in DOMAIN mixer THEN mixer[offset] ELSE 0

Mixer_writew(mixer, offset, val) ==
    IF MixerOffsetValid(offset)
    THEN [o \in (DOMAIN mixer) \cup {offset} |-> IF o = offset THEN val ELSE mixer[o]]
    ELSE mixer

(***************************************************************************)
(* Ac97BusMaster (bus-master engine).  Modelled from the design document:  *)
(* it holds the interrupt handles once they are delivered, its view of the *)
(* mixer settings, the level of the shared interrupt line, and for each of *)
(* the streams PCM in (registers at 0x00) and PCM out (registers at 0x10)  *)
(* the registers                                                           *)
(*   bdbar  descriptor-list base (32 bit),                                 *)
(*   civ    current index (8 bit, read-only),                              *)
(*   lvi    last valid index (8 bit, rings have at most 32 entries),       *)
(*   sr     status (16 bit, interrupt bits are cleared by writing one),    *)
(*   picb   samples left in the current buffer (16 bit, read-only),        *)
(*   cr     control (8 bit),                                               *)
(* the state Stopped / Running, and `xfer`, the number of samples moved    *)
(* since the stream was last started.  The registers of PCM out are fields *)
(* of the engine itself, those of PCM in are in the field `pi`.            *)
(* `signals` is what the engine's last entry point sent out, in order:     *)
(* sample transfers and edges of the interrupt line.                       *)
(***************************************************************************)
Streams == {"PI", "PO"}

\* The stream a register offset belongs to, and the register within the stream.
FuncOf(offset) ==
    IF offset < PO_BDBAR_10 THEN "PI"
    ELSE IF offset < 2 * PO_BDBAR_10 THEN "PO" ELSE "none"

RegOf(offset) == offset % PO_BDBAR_10

MixerSettings(mixer) ==
    [mute |-> Bit(Mixer_readw(mixer, MIXER_MASTER_VOL_MUTE_02), 15) = 1,
     volume |-> Mixer_readw(mixer, MIXER_MASTER_VOL_MUTE_02) % 64]

Ac97BusMaster_new ==
    [irq_evt |-> None, irq_resample_evt |-> None,
     mixer_settings |-> MixerSettings(Ac97Mixer_new),
     bdbar |-> 0, lvi |-> 0, sr |-> SR_DCH,
     po |-> [cr |-> 0, civ |-> 0, picb |-> 0, state |-> "Stopped", xfer |-> 0],
     pi |-> [bdbar |-> 0, lvi |-> 0, sr |-> SR_DCH,
             cr |-> 0, civ |-> 0, picb |-> 0, state |-> "Stopped", xfer |-> 0],
     irq_level |-> FALSE,
     signals |-> << >>]

\* The registers and state of one stream.
FuncRegs(bm, func) ==
    IF func = "PO"
    THEN [bdbar |-> bm.bdbar, lvi |-> bm.lvi, sr |-> bm.sr,
          cr |-> bm.po.cr, civ |-> bm.po.civ, picb |-> bm.po.picb,
          state |-> bm.po.state, xfer |-> bm.po.xfer]
    ELSE bm.pi

WithFuncRegs(bm, func, regs) ==
    IF func = "PO"
    THEN [bm EXCEPT !.bdbar = regs.bdbar, !.lvi = regs.lvi, !.sr = regs.sr,
                    !.po = [cr |-> regs.cr, civ |-> regs.civ, picb |-> regs.picb,
                            state |-> regs.state, xfer |-> regs.xfer]]
    ELSE [bm EXCEPT !.pi = regs]

set_irq_event_fd(bm, irq_evt, irq_resample_evt) ==
    [bm EXCEPT !.irq_evt = Some(irq_evt), !.irq_resample_evt = Some(irq_resample_evt)]

update_mixer_settings(bm, mixer) == [bm EXCEPT !.mixer_settings = MixerSettings(mixer)]

\* The descriptor the guest keeps at `index` of a descriptor list: its length
\* in samples and its interrupt-on-completion flag.  The guest memory explored
\* holds the same list at every base: buffers of one and two samples in turn,
\* the former with the flag.
Descriptor(bdbar, index) == [len |-> 1 + (index % 2), ioc |-> index % 2 = 0]

HasBit(v, mask) == (v \div mask) % 2 = 1
SetBit(v, mask) == IF HasBit(v, mask) THEN v ELSE v + mask
ClearBit(v, mask) == IF HasBit(v, mask) THEN v - mask ELSE v

\* A stream has an interrupt pending.
IntPending(regs) == \E k \in SR_INT_BITS : Bit(regs.sr, k) = 1

BM_readb(bm, offset) ==
    IF FuncOf(offset) = "none" THEN 0
    ELSE LET regs == FuncRegs(bm, FuncOf(offset))
         IN  CASE RegOf(offset) = PI_CIV_04 -> regs.civ
               [] RegOf(offset) = PI_LVI_05 -> regs.lvi
               [] RegOf(offset) = PI_CR_0B -> regs.cr
               [] OTHER -> 0

BM_readw(bm, offset) ==
    IF FuncOf(offset) = "none" THEN 0
    ELSE LET regs == FuncRegs(bm, FuncOf(offset))
         IN  CASE RegOf(offset) = PI_SR_06 -> regs.sr
               [] RegOf(offset) = PI_PICB_08 -> regs.picb
               [] OTHER -> 0

BM_readl(bm, offset) ==
    IF FuncOf(offset) = "none" THEN 0
    ELSE LET regs == FuncRegs(bm, FuncOf(offset))
         IN  IF RegOf(offset) = PI_BDBAR_00 THEN regs.bdbar ELSE 0

\* A write of the control register.  Setting the run bit of a stream that does
\* not have it set starts the stream at the head of its descriptor list;
\* clearing it stops the stream, current index and position being kept.
set_cr(regs, val) ==
    IF HasBit(val, CR_RPBM)
    THEN IF ~HasBit(regs.cr, CR_RPBM)
         THEN [regs EXCEPT !.cr = val % 32, !.state = "Running",
                           !.civ = 0, !.picb = Descriptor(regs.bdbar, 0).len,
                           !.xfer = 0, !.sr = ClearBit(@, SR_DCH)]
         ELSE [regs EXCEPT !.cr = val % 32]
    ELSE [regs EXCEPT !.cr = val % 32, !.state = "Stopped", !.sr = SetBit(@, SR_DCH)]

BM_writeb(bm, offset, val, mixer) ==
    IF FuncOf(offset) = "none" THEN [bm EXCEPT !.signals = << >>]
    ELSE LET func == FuncOf(offset)
             regs == FuncRegs(bm, func)
             entered == [bm EXCEPT !.signals = << >>]
         IN  CASE RegOf(offset) = PI_LVI_05 ->
                    WithFuncRegs(entered, func, [regs EXCEPT !.lvi = val % 32])
               [] RegOf(offset) = PI_CR_0B ->
                    WithFuncRegs(entered, func, set_cr(regs, val))
               [] OTHER -> entered

\* sr with every interrupt bit cleared that is set in val
RECURSIVE ClearBits(_, _, _)
ClearBits(sr, val, bits) ==
    IF bits = {} THEN sr
    ELSE LET k == CHOOSE b \in bits : TRUE
             rest == ClearBits(sr, val, bits \ {k})
         IN  IF Bit(val, k) = 1 /\ Bit(sr, k) = 1 THEN rest - 2 ^ k ELSE rest

\* Mutant of set_sr: the line is de-asserted whatever the other streams hold.
set_sr_mut_always_deassert(bm, func, val) ==
    LET regs == FuncRegs(bm, func)
        cleared == WithFuncRegs(bm, func, [regs EXCEPT !.sr = ClearBits(@, val, SR_INT_BITS)])
    IN  IF cleared.irq_level
        THEN [cleared EXCEPT !.irq_level = FALSE,
                             !.signals = Append(@, Call("irq_deassert", << >>))]
        ELSE cleared

\* A write of the status register: the interrupt bits written as one are
\* cleared, and the line is de-asserted when no stream has one left.
set_sr(bm, func, val) ==
    LET regs == FuncRegs(bm, func)
        cleared == WithFuncRegs(bm, func, [regs EXCEPT !.sr = ClearBits(@, val, SR_INT_BITS)])
    IN  IF cleared.irq_level /\ \A f \in Streams : ~IntPending(FuncRegs(cleared, f))
        THEN [cleared EXCEPT !.irq_level = FALSE,
                             !.signals = Append(@, Call("irq_deassert", << >>))]
        ELSE cleared

BM_writew(bm, offset, val) ==
    IF FuncOf(offset) # "none" /\ RegOf(offset) = PI_SR_06
    THEN set_sr([bm EXCEPT !.signals = << >>], FuncOf(offset), val)
    ELSE [bm EXCEPT !.signals = << >>]

BM_writel(bm, offset, val) ==
    IF FuncOf(offset) # "none" /\ RegOf(offset) = PI_BDBAR_00
    THEN WithFuncRegs([bm EXCEPT !.signals = << >>], FuncOf(offset),
                      [FuncRegs(bm, FuncOf(offset)) EXCEPT !.bdbar = val])
    ELSE [bm EXCEPT !.signals = << >>]

\* The core algorithm on a Running stream that is asked for `need` samples:
\* [regs, signals].  Samples are moved while the backend needs some and the
\* current buffer has some; a
\* buffer that is finished raises the completion interrupt if its descriptor
\* asks for it, and then either the ring is exhausted (current index = last
\* valid index: the stream stops and the DMA-halted bit is set) or the next
\* descriptor is fetched.
RECURSIVE Transfer(_, _, _)
Transfer(regs, need, signals) ==
    IF need = 0 \/ regs.picb = 0 THEN [regs |-> regs, signals |-> signals]
    ELSE
    LET n == IF regs.picb < need THEN regs.picb ELSE need
        desc == Descriptor(regs.bdbar, regs.civ)
        moved == [regs EXCEPT !.picb = @ - n, !.xfer = @ + n]
        sent == Append(signals, Call("transfer", << n >>))
    IN  IF moved.picb > 0 THEN [regs |-> moved, signals |-> sent]
        ELSE
    LET done == IF desc.ioc THEN [moved EXCEPT !.sr = SetBit(@, SR_BCIS)] ELSE moved
        raised == IF desc.ioc THEN Append(sent, Call("irq_assert", << >>)) ELSE sent
        next == (done.civ + 1) % RING_LEN
    IN  IF done.civ = done.lvi
        THEN [regs |-> [done EXCEPT !.state = "Stopped", !.sr = SetBit(@, SR_DCH)],
              signals |-> raised]
        ELSE Transfer([done EXCEPT !.civ = next,
                                   !.picb = Descriptor(done.bdbar, next).len],
                      need - n, raised)

\* Mutant of callback_transfer: the ring is taken to end one sample early.
callback_transfer_mut_early_stop(bm, func, need) ==
    LET out == Transfer(FuncRegs(bm, func), need, << >>)
        regs == IF out.regs.picb = 1 /\ out.regs.civ = out.regs.lvi
                THEN [out.regs EXCEPT !.state = "Stopped", !.sr = SetBit(@, SR_DCH)]
                ELSE out.regs
    IN  [WithFuncRegs(bm, func, regs) EXCEPT !.signals = out.signals]

\* The backend's callback for `need` samples of a stream it found Running.
callback_transfer(bm, func, need) ==
    LET out == Transfer(FuncRegs(bm, func), need, << >>)
        asserted == \E i \in DOMAIN out.signals : out.signals[i].fn = "irq_assert"
    IN  [WithFuncRegs(bm, func, out.regs)
            EXCEPT !.signals = out.signals,
                   !.irq_level = @ \/ asserted]

\* The backend's callback on a stream that is not Running: silence is supplied
\* (or the samples are dropped) and nothing else happens.
callback_silence(bm, func) == [bm EXCEPT !.signals = << >>]

\* Mutant of LockFree: a register access does not wait for the callback.
LockFree_mut_no_wait(cb, func) == TRUE

\* The exclusive access to a stream: free while no callback of it is under way.
LockFree(cb, func) == func \notin Streams \/ cb[func].pc = "idle"

(***************************************************************************)
(* SystemAllocator, low-MMIO pool.  Modelled from the design document: a   *)
(* request for `size` bytes aligned to `alignment` is answered with a free *)
(* aligned range of the pool (here the lowest one), or fails when there is *)
(* none.  The state is the set of ranges handed out.                       *)
(***************************************************************************)
PoolEnd == PoolBase + PoolBlocks * MASTER_REGS_SIZE

Overlaps(a, asize, b, bsize) == a < b + bsize /\ b < a + asize

FreeAligned(resources, size, alignment) ==
    { a \in { PoolBase + k * alignment : k \in 0 .. ((PoolEnd - PoolBase) \div alignment) } :
        /\ a % alignment = 0
        /\ a + size <= PoolEnd
        /\ \A r \in resources : ~Overlaps(a, size, r.addr, r.size) }

\* Result<u64>: Some(address), or None for the allocator's error.
allocate_with_align(resources, size, alignment) ==
    LET free == FreeAligned(resources, size, alignment)
    IN  IF free = {} THEN None
        ELSE Some(CHOOSE a \in free : \A b \in free : a <= b)

\* Alloc::PciBar { bus, dev, func, bar }
PciBar(address, bar) ==
    [bus |-> address.bus, dev |-> address.dev, func |-> address.func, bar |-> bar]

Allocated(resources, addr, size, alloc) ==
    resources \cup {[addr |-> addr, size |-> size, alloc |-> alloc]}


(***************************************************************************)
(* Ac97Dev.  A device value `self` is the record of the struct's fields    *)
(* plus `events`, the log of the collaborator calls the running handler    *)
(* has made so far, in order.                                              *)
(***************************************************************************)
\* Ac97Dev::new
Ac97Dev_new ==
    [config_regs |-> PciConfiguration_new,
     pci_address |-> None,
     irq_evt |-> None,
     irq_resample_evt |-> None,
     bus_master |-> Ac97BusMaster_new,
     mixer |-> Ac97Mixer_new,
     events |-> << >>]

Log(self, fn, args) == [self EXCEPT !.events = Append(@, Call(fn, args))]

\* Mutant of read_mixer: the two bytes are stored in the wrong order.
read_mixer_mut_swapped(self, offset, data) ==
    IF Len(data) = 2
    THEN [self |-> Log(self, "mixer.readw", << offset >>),
          data |-> [data EXCEPT ![1] = AsU8(Mixer_readw(self.mixer, offset) \div 256),
                                ![2] = AsU8(Mixer_readw(self.mixer, offset))]]
    ELSE [self |-> self, data |-> data]

\* Ac97Dev::read_mixer: [self, data]
read_mixer(self, offset, data) ==
    IF Len(data) = 2
    THEN [self |-> Log(self, "mixer.readw", << offset >>),
          data |-> PutU16(data, Mixer_readw(self.mixer, offset))]
    ELSE [self |-> self, data |-> data]

\* Mutant of write_mixer: any length of at least 2 bytes is taken as a word.
write_mixer_mut_long_is_word(self, offset, data) ==
    LET written ==
            IF Len(data) >= 2
            THEN [Log(self, "mixer.writew", << offset, LeU16(data) >>)
                    EXCEPT !.mixer = Mixer_writew(@, offset, LeU16(data))]
            ELSE self
    IN  [Log(written, "update_mixer_settings", << >>)
            EXCEPT !.bus_master = update_mixer_settings(@, written.mixer)]

\* Mutant of write_mixer: the settings are applied before the word is stored.
write_mixer_mut_update_first(self, offset, data) ==
    LET updated ==
            [Log(self, "update_mixer_settings", << >>)
                EXCEPT !.bus_master = update_mixer_settings(@, self.mixer)]
    IN  IF Len(data) = 2
        THEN [Log(updated, "mixer.writew", << offset, LeU16(data) >>)
                EXCEPT !.mixer = Mixer_writew(@, offset, LeU16(data))]
        ELSE updated

\* Ac97Dev::write_mixer
write_mixer(self, offset, data) ==
    LET written ==
            IF Len(data) = 2
            THEN [Log(self, "mixer.writew", << offset, LeU16(data) >>)
                    EXCEPT !.mixer = Mixer_writew(@, offset, LeU16(data))]
            ELSE self
    IN  \* Apply the new mixer settings to the bus master.
        [Log(written, "update_mixer_settings", << >>)
            EXCEPT !.bus_master = update_mixer_settings(@, written.mixer)]

\* Mutant of read_bus_master: the bytes of a long are stored most significant
\* first.
read_bus_master_mut_big_endian(self, offset, data) ==
    CASE Len(data) = 1 ->
            [self |-> Log(self, "readb", << offset >>),
             data |-> [data EXCEPT ![1] = BM_readb(self.bus_master, offset)]]
      [] Len(data) = 2 ->
            [self |-> Log(self, "readw", << offset >>),
             data |-> PutU16(data, BM_readw(self.bus_master, offset))]
      [] Len(data) = 4 ->
            [self |-> Log(self, "readl", << offset >>),
             data |-> [i \in 1 .. 4 |->
                        PutU32(data, BM_readl(self.bus_master, offset))[5 - i]]]
      [] OTHER -> [self |-> self, data |-> data]

\* Ac97Dev::read_bus_master: [self, data]
read_bus_master(self, offset, data) ==
    CASE Len(data) = 1 ->
            [self |-> Log(self, "readb", << offset >>),
             data |-> [data EXCEPT ![1] = BM_readb(self.bus_master, offset)]]
      [] Len(data) = 2 ->
            [self |-> Log(self, "readw", << offset >>),
             data |-> PutU16(data, BM_readw(self.bus_master, offset))]
      [] Len(data) = 4 ->
            [self |-> Log(self, "readl", << offset >>),
             data |-> PutU32(data, BM_readl(self.bus_master, offset))]
      [] OTHER -> [self |-> self, data |-> data]

\* Mutant of write_bus_master: a 3-byte write is handled as a word write.
write_bus_master_mut_3_is_word(self, offset, data) ==
    CASE Len(data) = 1 ->
            [Log(self, "writeb", << offset, data[1] >>)
                EXCEPT !.bus_master = BM_writeb(@, offset, data[1], self.mixer)]
      [] Len(data) \in {2, 3} ->
            [Log(self, "writew", << offset, LeU16(data) >>)
                EXCEPT !.bus_master = BM_writew(@, offset, LeU16(data))]
      [] Len(data) = 4 ->
            [Log(self, "writel", << offset, LeU32(data) >>)
                EXCEPT !.bus_master = BM_writel(@, offset, LeU32(data))]
      [] OTHER -> self

\* Ac97Dev::write_bus_master
write_bus_master(self, offset, data) ==
    CASE Len(data) = 1 ->
            [Log(self, "writeb", << offset, data[1] >>)
                EXCEPT !.bus_master = BM_writeb(@, offset, data[1], self.mixer)]
      [] Len(data) = 2 ->
            [Log(self, "writew", << offset, LeU16(data) >>)
                EXCEPT !.bus_master = BM_writew(@, offset, LeU16(data))]
      [] Len(data) = 4 ->
            [Log(self, "writel", << offset, LeU32(data) >>)
                EXCEPT !.bus_master = BM_writel(@, offset, LeU32(data))]
      [] OTHER -> self

\* PciDevice::assign_address
assign_address(self, address) == [self EXCEPT !.pci_address = Some(address)]

\* Mutant of assign_irq: the resample handle is not kept.
assign_irq_mut_one_slot(self, irq_evt, irq_resample_evt, irq_num, irq_pin) ==
    [self EXCEPT !.config_regs = set_irq(@, AsU8(irq_num), irq_pin),
                 !.irq_evt = Some(irq_evt)]

\* Mutant of assign_irq: the handles are forwarded to the engine at once.
assign_irq_mut_forwards(self, irq_evt, irq_resample_evt, irq_num, irq_pin) ==
    [self EXCEPT !.config_regs = set_irq(@, AsU8(irq_num), irq_pin),
                 !.bus_master = set_irq_event_fd(@, irq_evt, irq_resample_evt)]

\* PciDevice::assign_irq
assign_irq(self, irq_evt, irq_resample_evt, irq_num, irq_pin) ==
    [self EXCEPT !.config_regs = set_irq(@, AsU8(irq_num), irq_pin),
                 !.irq_evt = Some(irq_evt),
                 !.irq_resample_evt = Some(irq_resample_evt)]

\* Result<Vec<(u64, u64)>> and the abort of `expect`
Ok(ranges) == [kind |-> "Ok", val |-> ranges]
Err(error, arg) == [kind |-> "Err", val |-> << error, arg >>]
Panic(msg) == [kind |-> "Panic", val |-> << msg >>]
Unit == [kind |-> "Unit", val |-> << >>]

Outcome(self, resources, ret) == [self |-> self, resources |-> resources, ret |-> ret]

\* Mutant of AllocateMasterBar: the bus-master BAR is registered at the
\* address of the mixer BAR.
AllocateMasterBar_mut_mixer_addr(self, resources, address, mixer_regs_addr) ==
    LET master_alloc == allocate_with_align(resources, MASTER_REGS_SIZE, MASTER_REGS_SIZE)
    IN  IF master_alloc = None
        THEN Outcome(self, resources, Err("IoAllocationFailed", MASTER_REGS_SIZE))
        ELSE
    LET master_regs_addr == master_alloc[1]
        res1 == Allocated(resources, master_regs_addr, MASTER_REGS_SIZE, PciBar(address, 1))
        master_config == [reg_idx |-> 1, addr |-> mixer_regs_addr, size |-> MASTER_REGS_SIZE]
        reg == add_pci_bar(self.config_regs, master_config)
    IN  IF ~reg.ok
        THEN Outcome(self, res1, Err("IoRegistrationFailed", master_regs_addr))
        ELSE Outcome([self EXCEPT !.config_regs = reg.cfg], res1,
                     Ok(<< << mixer_regs_addr, MIXER_REGS_SIZE >>,
                           << master_regs_addr, MASTER_REGS_SIZE >> >>))

\* Mutant of AllocateMasterBar: the bus-master range is aligned to the size of
\* the mixer range.
AllocateMasterBar_mut_mixer_align(self, resources, address, mixer_regs_addr) ==
    LET master_alloc == allocate_with_align(resources, MASTER_REGS_SIZE, MIXER_REGS_SIZE)
    IN  IF master_alloc = None
        THEN Outcome(self, resources, Err("IoAllocationFailed", MASTER_REGS_SIZE))
        ELSE
    LET master_regs_addr == master_alloc[1]
        res1 == Allocated(resources, master_regs_addr, MASTER_REGS_SIZE, PciBar(address, 1))
        master_config == [reg_idx |-> 1, addr |-> master_regs_addr, size |-> MASTER_REGS_SIZE]
        reg == add_pci_bar(self.config_regs, master_config)
    IN  IF ~reg.ok
        THEN Outcome(self, res1, Err("IoRegistrationFailed", master_regs_addr))
        ELSE Outcome([self EXCEPT !.config_regs = reg.cfg], res1,
                     Ok(<< << mixer_regs_addr, MIXER_REGS_SIZE >>,
                           << master_regs_addr, MASTER_REGS_SIZE >> >>))

\* Mutant of AllocateMasterBar: when the bus-master range cannot be had, the
\* mixer BAR is unregistered and its range given back.
AllocateMasterBar_mut_rolls_back(self, resources, address, mixer_regs_addr) ==
    LET master_alloc == allocate_with_align(resources, MASTER_REGS_SIZE, MASTER_REGS_SIZE)
    IN  IF master_alloc = None
        THEN Outcome([self EXCEPT !.config_regs.bar_used[1] = FALSE,
                                  !.config_regs.bar_addr[1] = 0],
                     { r \in resources : r.addr # mixer_regs_addr },
                     Err("IoAllocationFailed", MASTER_REGS_SIZE))
        ELSE
    LET master_regs_addr == master_alloc[1]
        res1 == Allocated(resources, master_regs_addr, MASTER_REGS_SIZE, PciBar(address, 1))
        master_config == [reg_idx |-> 1, addr |-> master_regs_addr, size |-> MASTER_REGS_SIZE]
        reg == add_pci_bar(self.config_regs, master_config)
    IN  IF ~reg.ok
        THEN Outcome(self, res1, Err("IoRegistrationFailed", master_regs_addr))
        ELSE Outcome([self EXCEPT !.config_regs = reg.cfg], res1,
                     Ok(<< << mixer_regs_addr, MIXER_REGS_SIZE >>,
                           << master_regs_addr, MASTER_REGS_SIZE >> >>))

\* allocate_io_bars, second half: the bus-master BAR, after the mixer BAR was
\* allocated at mixer_regs_addr and registered.
AllocateMasterBar(self, resources, address, mixer_regs_addr) ==
    LET master_alloc == allocate_with_align(resources, MASTER_REGS_SIZE, MASTER_REGS_SIZE)
    IN  IF master_alloc = None
        THEN Outcome(self, resources, Err("IoAllocationFailed", MASTER_REGS_SIZE))
        ELSE
    LET master_regs_addr == master_alloc[1]
        res1 == Allocated(resources, master_regs_addr, MASTER_REGS_SIZE, PciBar(address, 1))
        master_config == [reg_idx |-> 1, addr |-> master_regs_addr, size |-> MASTER_REGS_SIZE]
        reg == add_pci_bar(self.config_regs, master_config)
    IN  IF ~reg.ok
        THEN Outcome(self, res1, Err("IoRegistrationFailed", master_regs_addr))
        ELSE Outcome([self EXCEPT !.config_regs = reg.cfg], res1,
                     Ok(<< << mixer_regs_addr, MIXER_REGS_SIZE >>,
                           << master_regs_addr, MASTER_REGS_SIZE >> >>))

\* Mutant of AllocateMixerBar: a rejected registration is reported as a failed
\* allocation.
AllocateMixerBar_mut_wrong_error(self, resources, address) ==
    LET mixer_alloc == allocate_with_align(resources, MIXER_REGS_SIZE, MIXER_REGS_SIZE)
    IN  IF mixer_alloc = None
        THEN Outcome(self, resources, Err("IoAllocationFailed", MIXER_REGS_SIZE))
        ELSE
    LET mixer_regs_addr == mixer_alloc[1]
        res0 == Allocated(resources, mixer_regs_addr, MIXER_REGS_SIZE, PciBar(address, 0))
        mixer_config == [reg_idx |-> 0, addr |-> mixer_regs_addr, size |-> MIXER_REGS_SIZE]
        reg == add_pci_bar(self.config_regs, mixer_config)
    IN  IF ~reg.ok
        THEN Outcome(self, res0, Err("IoAllocationFailed", MIXER_REGS_SIZE))
        ELSE AllocateMasterBar([self EXCEPT !.config_regs = reg.cfg], res0,
                               address, mixer_regs_addr)

\* allocate_io_bars, first half: the mixer BAR.  Each `?` returns early, with
\* what was done before it left in place.
AllocateMixerBar(self, resources, address) ==
    LET mixer_alloc == allocate_with_align(resources, MIXER_REGS_SIZE, MIXER_REGS_SIZE)
    IN  IF mixer_alloc = None
        THEN Outcome(self, resources, Err("IoAllocationFailed", MIXER_REGS_SIZE))
        ELSE
    LET mixer_regs_addr == mixer_alloc[1]
        res0 == Allocated(resources, mixer_regs_addr, MIXER_REGS_SIZE, PciBar(address, 0))
        mixer_config == [reg_idx |-> 0, addr |-> mixer_regs_addr, size |-> MIXER_REGS_SIZE]
        reg == add_pci_bar(self.config_regs, mixer_config)
    IN  IF ~reg.ok
        THEN Outcome(self, res0, Err("IoRegistrationFailed", mixer_regs_addr))
        ELSE AllocateMasterBar([self EXCEPT !.config_regs = reg.cfg], res0,
                               address, mixer_regs_addr)

\* Mutant of allocate_io_bars: the address is looked at only after the mixer
\* range was requested.
allocate_io_bars_mut_late_check(self, resources) ==
    LET mixer_alloc == allocate_with_align(resources, MIXER_REGS_SIZE, MIXER_REGS_SIZE)
        res0 == IF mixer_alloc = None THEN resources
                ELSE Allocated(resources, mixer_alloc[1], MIXER_REGS_SIZE,
                               [bus |-> 0, dev |-> 0, func |-> 0, bar |-> 0])
    IN  IF self.pci_address = None
        THEN Outcome(self, res0,
                     Panic("assign_address must be called prior to allocate_io_bars"))
        ELSE AllocateMixerBar(self, resources, self.pci_address[1])

\* PciDevice::allocate_io_bars: [self, resources, ret]
allocate_io_bars(self, resources) ==
    IF self.pci_address = None
    THEN Outcome(self, resources,
                 Panic("assign_address must be called prior to allocate_io_bars"))
    ELSE AllocateMixerBar(self, resources, self.pci_address[1])

\* PciDevice::read_config_register
read_config_register(self, reg_idx) == read_reg(self.config_regs, reg_idx)

\* Mutant of write_config_register: a 4-byte write to the BAR0 register moves
\* the mixer window.
write_config_register_mut_moves_bar(self, reg_idx, offset, data) ==
    IF reg_idx = 4 /\ Len(data) = 4
    THEN [self EXCEPT !.config_regs.bar_addr[1] = LeU32(data)]
    ELSE [self EXCEPT !.config_regs = write_reg(@, reg_idx, offset, data)]

\* PciDevice::write_config_register
write_config_register(self, reg_idx, offset, data) ==
    [self EXCEPT !.config_regs = write_reg(@, reg_idx, offset, data)]

\* Mutant of InMasterWindow: the end of the window is taken as part of it.
InMasterWindow_mut_end_inclusive(self, addr) ==
    LET bar1 == get_bar_addr(self.config_regs, 1)
    IN  addr >= bar1 /\ addr <= bar1 + MASTER_REGS_SIZE

\* The match of read_bar / write_bar on addr: the first arm that applies.
InMixerWindow(self, addr) ==
    LET bar0 == get_bar_addr(self.config_regs, 0)
    IN  addr >= bar0 /\ addr < bar0 + MIXER_REGS_SIZE

InMasterWindow(self, addr) ==
    LET bar1 == get_bar_addr(self.config_regs, 1)
    IN  addr >= bar1 /\ addr < bar1 + MASTER_REGS_SIZE

\* PciDevice::read_bar: [self, data]
read_bar(self, addr, data) ==
    LET bar0 == get_bar_addr(self.config_regs, 0)
        bar1 == get_bar_addr(self.config_regs, 1)
    IN  CASE InMixerWindow(self, addr) -> read_mixer(self, addr - bar0, data)
          [] ~InMixerWindow(self, addr) /\ InMasterWindow(self, addr) ->
                read_bus_master(self, addr - bar1, data)
          [] OTHER -> [self |-> self, data |-> data]

\* Mutant of PassIrq: the handles are cloned for the engine, not taken.
PassIrq_mut_keeps_pending(self) ==
    IF self.irq_evt # None /\ self.irq_resample_evt # None
    THEN [Log(self, "set_irq_event_fd", << self.irq_evt[1], self.irq_resample_evt[1] >>)
            EXCEPT !.bus_master =
                set_irq_event_fd(@, self.irq_evt[1], self.irq_resample_evt[1])]
    ELSE self

\* write_bar: "Check if the irq needs to be passed to the device."
\* Both Option::take() calls run before the pattern is matched.
PassIrq(self) ==
    LET taken == [self EXCEPT !.irq_evt = None, !.irq_resample_evt = None]
    IN  IF self.irq_evt # None /\ self.irq_resample_evt # None
        THEN [Log(taken, "set_irq_event_fd", << self.irq_evt[1], self.irq_resample_evt[1] >>)
                EXCEPT !.bus_master =
                    set_irq_event_fd(@, self.irq_evt[1], self.irq_resample_evt[1])]
        ELSE taken

\* Mutant of write_bar: the handles are passed only with a write of a width
\* the engine accepts.
write_bar_mut_width_gate(self, addr, data) ==
    LET bar0 == get_bar_addr(self.config_regs, 0)
        bar1 == get_bar_addr(self.config_regs, 1)
    IN  CASE InMixerWindow(self, addr) -> write_mixer(self, addr - bar0, data)
          [] ~InMixerWindow(self, addr) /\ InMasterWindow(self, addr) ->
                IF Len(data) \in {1, 2, 4}
                THEN write_bus_master(PassIrq(self), addr - bar1, data)
                ELSE self
          [] OTHER -> self

\* PciDevice::write_bar
write_bar(self, addr, data) ==
    LET bar0 == get_bar_addr(self.config_regs, 0)
        bar1 == get_bar_addr(self.config_regs, 1)
    IN  CASE InMixerWindow(self, addr) -> write_mixer(self, addr - bar0, data)
          [] ~InMixerWindow(self, addr) /\ InMasterWindow(self, addr) ->
                write_bus_master(PassIrq(self), addr - bar1, data)
          [] OTHER -> self


(***************************************************************************)
(* Encoder (devices/src/virtio/video/encoder/mod.rs): a struct without     *)
(* fields and its implementation of Device.  A call gives [self, ret].     *)
(***************************************************************************)
\* Encoder::new
Encoder_new == << >>

\* Mutant of process_cmd: the capability query is answered.
process_cmd_mut_query_ok(self, cmd) ==
    IF cmd.type = 256
    THEN [self |-> self, ret |-> [kind |-> "Ok", val |-> << "QueryCapability" >>]]
    ELSE [self |-> self, ret |-> [kind |-> "Err", val |-> << "InvalidOperation" >>]]

\* Device::process_cmd
process_cmd(self, cmd) ==
    [self |-> self, ret |-> [kind |-> "Err", val |-> << "InvalidOperation" >>]]

\* Device::process_event_fd
process_event_fd(self, stream_id) ==
    [self |-> self, ret |-> [kind |-> "Option", val |-> None]]

\* Device::take_resource_id_to_notify_eos
take_resource_id_to_notify_eos(self, stream_id) ==
    [self |-> self, ret |-> [kind |-> "Option", val |-> None]]

(***************************************************************************)
(* The state machine: one device, the allocator it is given, and what the  *)
(* caller of the last operation observed.                                  *)
(***************************************************************************)
VARIABLES
    config_regs,        \* Ac97Dev.config_regs
    pci_address,        \* Ac97Dev.pci_address
    irq_evt,            \* Ac97Dev.irq_evt
    irq_resample_evt,   \* Ac97Dev.irq_resample_evt
    bus_master,         \* Ac97Dev.bus_master
    mixer,              \* Ac97Dev.mixer
    resources,          \* the SystemAllocator's low-MMIO pool
    last,               \* the last operation called: [op, arg, data]
    events,             \* the collaborator calls that operation made, in order
    buf,                \* the caller's data buffer after that operation
    ret,                \* what that operation returned
    assigned,           \* number of assign_irq calls so far
    delivered,          \* number of set_irq_event_fd calls so far
    master_written,     \* whether write_bar has taken its bus-master arm
    callback,           \* per stream, where the backend's callback stands
    encoder             \* the video Encoder

vars == << config_regs, pci_address, irq_evt, irq_resample_evt, bus_master, mixer,
           resources, last, events, buf, ret, assigned, delivered, master_written,
           callback, encoder >>

\* What the handlers of the audio device leave alone.
others == << callback, encoder >>

\* The device as the next handler finds it.
Self ==
    [config_regs |-> config_regs, pci_address |-> pci_address,
     irq_evt |-> irq_evt, irq_resample_evt |-> irq_resample_evt,
     bus_master |-> bus_master, mixer |-> mixer, events |-> << >>]

\* The device as a handler leaves it.
Becomes(self) ==
    /\ config_regs' = self.config_regs
    /\ pci_address' = self.pci_address
    /\ irq_evt' = self.irq_evt
    /\ irq_resample_evt' = self.irq_resample_evt
    /\ bus_master' = self.bus_master
    /\ mixer' = self.mixer
    /\ events' = self.events
    /\ delivered' = delivered
            + Cardinality({i \in DOMAIN self.events : self.events[i].fn = "set_irq_event_fd"})

Op(op, arg, data) == [op |-> op, arg |-> arg, data |-> data, pin |-> "None"]

\* A panic unwinds out of the device: nothing is called on it afterwards.
Aborted == ret.kind = "Panic"

\* The inputs explored.
PciAddresses == {[bus |-> 0, dev |-> 0, func |-> 0]}
IrqInputs == {[num |-> 5, pin |-> "IntA"], [num |-> 261, pin |-> "IntA"]}
\* An event handle is known by its descriptor number: the id-th pair handed to
\* assign_irq is (2 * id, 2 * id + 1).
EventFd(role, id) == IF role = "irq" THEN 2 * id ELSE 2 * id + 1
ConfigWrites == {[reg_idx |-> COMMAND_REG, data |-> << 6, 0 >>],
                 [reg_idx |-> 4, data |-> << 0, 0, 0, 48 >>]}
Byte1 == << 1 >>
Word == << 52, 128 >>
Word2 == << 255, 0 >>
Bytes3 == << 1, 2, 3 >>
Long == << 120, 86, 52, 18 >>
\* A caller's read buffer of n bytes, filled with 0xAA.
Buffer(n) == [i \in 1 .. n |-> 170]
Access(addr, data) == [addr |-> addr, data |-> data]
\* The guest's writes: the master-volume register of the mixer window in every
\* width, the three bus-master registers in their own width and one in a width
\* that does not exist, the first address past each window.
GuestWrites ==
    LET bar0 == get_bar_addr(config_regs, 0)
        bar1 == get_bar_addr(config_regs, 1)
    IN  { Access(bar0 + MIXER_MASTER_VOL_MUTE_02, d) : d \in {Byte1, Word, Word2, Bytes3, Long} }
        \cup { Access(bar1 + PO_BDBAR_10, Long), Access(bar1 + PO_BDBAR_10, Bytes3),
               Access(bar1 + PO_LVI_15, Byte1), Access(bar1 + PO_SR_16, Word),
               Access(bar0 + MIXER_REGS_SIZE, Byte1),
               Access(bar1 + MASTER_REGS_SIZE, Word) }
\* The guest's reads: the same addresses, with buffers of the same widths.
GuestReads == { Access(w.addr, Buffer(Len(w.data))) : w \in GuestWrites }

Init ==
    /\ config_regs = Ac97Dev_new.config_regs
    /\ pci_address = Ac97Dev_new.pci_address
    /\ irq_evt = Ac97Dev_new.irq_evt
    /\ irq_resample_evt = Ac97Dev_new.irq_resample_evt
    /\ bus_master = Ac97Dev_new.bus_master
    /\ mixer = Ac97Dev_new.mixer
    /\ resources = {}
    /\ last = Op("new", 0, << >>)
    /\ events = << >>
    /\ buf = << >>
    /\ ret = Unit
    /\ assigned = 0
    /\ delivered = 0
    /\ master_written = FALSE
    /\ callback = [func \in Streams |-> [pc |-> "idle", need |-> 0]]
    /\ encoder = Encoder_new

AssignAddress ==
    /\ ~Aborted
    /\ \E address \in PciAddresses :
        /\ Becomes(assign_address(Self, address))
        /\ last' = Op("assign_address", 0, << >>)
    /\ buf' = << >>
    /\ ret' = Unit
    /\ UNCHANGED << resources, assigned, master_written >>
    /\ UNCHANGED others

AssignIrq ==
    /\ ~Aborted
    /\ assigned < MaxAssign
    /\ \E irq \in IrqInputs :
        /\ Becomes(assign_irq(Self, EventFd("irq", assigned + 1),
                              EventFd("resample", assigned + 1), irq.num, irq.pin))
        /\ last' = [Op("assign_irq", irq.num, << >>) EXCEPT !.pin = irq.pin]
    /\ assigned' = assigned + 1
    /\ buf' = << >>
    /\ ret' = Unit
    /\ UNCHANGED << resources, master_written >>
    /\ UNCHANGED others

AllocateIoBars ==
    /\ ~Aborted
    /\ LET out == allocate_io_bars(Self, resources)
       IN  /\ Becomes(out.self)
           /\ resources' = out.resources
           /\ ret' = out.ret
    /\ last' = Op("allocate_io_bars", 0, << >>)
    /\ buf' = << >>
    /\ UNCHANGED << assigned, master_written >>
    /\ UNCHANGED others

ReadConfigRegister ==
    /\ ~Aborted
    /\ \E w \in ConfigWrites :
        /\ ret' = [kind |-> "Value", val |-> << read_config_register(Self, w.reg_idx) >>]
        /\ last' = Op("read_config_register", w.reg_idx, << >>)
    /\ Becomes(Self)
    /\ buf' = << >>
    /\ UNCHANGED << resources, assigned, master_written >>
    /\ UNCHANGED others

WriteConfigRegister ==
    /\ ~Aborted
    /\ \E w \in ConfigWrites :
        /\ Becomes(write_config_register(Self, w.reg_idx, 0, w.data))
        /\ last' = Op("write_config_register", w.reg_idx, w.data)
    /\ buf' = << >>
    /\ ret' = Unit
    /\ UNCHANGED << resources, assigned, master_written >>
    /\ UNCHANGED others

ReadBar ==
    /\ ~Aborted
    /\ \E a \in GuestReads :
        LET r == read_bar(Self, a.addr, a.data)
        IN  /\ Becomes(r.self)
            /\ buf' = r.data
            /\ last' = Op("read_bar", a.addr, a.data)
    /\ ret' = Unit
    /\ UNCHANGED << resources, assigned, master_written >>
    /\ UNCHANGED others

WriteBar ==
    /\ ~Aborted
    /\ \E a \in GuestWrites :
        /\ Becomes(write_bar(Self, a.addr, a.data))
        /\ last' = Op("write_bar", a.addr, a.data)
        /\ master_written' =
              (master_written \/ (~InMixerWindow(Self, a.addr) /\ InMasterWindow(Self, a.addr)))
    /\ buf' = << >>
    /\ ret' = Unit
    /\ UNCHANGED << resources, assigned >>
    /\ UNCHANGED others

\* Another device of the machine takes a range from the same pool.
OtherDeviceAllocates ==
    /\ ~Aborted
    /\ LET got == allocate_with_align(resources, MASTER_REGS_SIZE, MASTER_REGS_SIZE)
       IN  /\ got # None
           /\ resources' = Allocated(resources, got[1], MASTER_REGS_SIZE,
                                     [bus |-> 0, dev |-> 1, func |-> 0, bar |-> 0])
    /\ last' = Op("other_device", 0, << >>)
    /\ events' = << >>
    /\ buf' = << >>
    /\ ret' = Unit
    /\ UNCHANGED << config_regs, pci_address, irq_evt, irq_resample_evt, bus_master,
                    mixer, assigned, delivered, master_written >>
    /\ UNCHANGED others

\* The guest's accesses to the stream registers, once the BARs are allocated:
\* run and stop either stream, acknowledge its completion interrupt, make the
\* ring of the playback stream two descriptors long; read back position and
\* status of the playback stream.
StreamBase(func) == IF func = "PI" THEN PI_BDBAR_00 ELSE PO_BDBAR_10
StreamWrites ==
    LET bar1 == get_bar_addr(config_regs, 1)
    IN  UNION { { Access(bar1 + StreamBase(func) + PI_CR_0B, << CR_RPBM >>),
                  Access(bar1 + StreamBase(func) + PI_CR_0B, << 0 >>),
                  Access(bar1 + StreamBase(func) + PI_SR_06, << SR_BCIS, 0 >>) }
                : func \in Streams }
        \cup { Access(bar1 + PO_LVI_15, Byte1) }
StreamReads ==
    LET bar1 == get_bar_addr(config_regs, 1)
    IN  { Access(bar1 + PO_PICB_18, Buffer(2)), Access(bar1 + PO_SR_16, Buffer(2)) }
\* The numbers of samples the backend asks for in one callback.
Requests == {1, 2}

BarsAllocated == config_regs.bar_used = << TRUE, TRUE >>

\* write_bar on a stream register: the access waits for the stream's callback.
WriteBarStream ==
    /\ ~Aborted
    /\ BarsAllocated
    /\ \E a \in StreamWrites :
        /\ LockFree(callback, FuncOf(a.addr - get_bar_addr(config_regs, 1)))
        /\ Becomes(write_bar(Self, a.addr, a.data))
        /\ last' = Op("write_bar", a.addr, a.data)
        /\ master_written' =
              (master_written \/ (~InMixerWindow(Self, a.addr) /\ InMasterWindow(Self, a.addr)))
    /\ buf' = << >>
    /\ ret' = Unit
    /\ UNCHANGED << resources, assigned >>
    /\ UNCHANGED others

\* read_bar on a stream register.
ReadBarStream ==
    /\ ~Aborted
    /\ BarsAllocated
    /\ \E a \in StreamReads :
        LET r == read_bar(Self, a.addr, a.data)
        IN  /\ LockFree(callback, FuncOf(a.addr - get_bar_addr(config_regs, 1)))
            /\ Becomes(r.self)
            /\ buf' = r.data
            /\ last' = Op("read_bar", a.addr, a.data)
    /\ ret' = Unit
    /\ UNCHANGED << resources, assigned, master_written >>
    /\ UNCHANGED others

\* What the backend's thread leaves alone.
ShellUntouched ==
    UNCHANGED << config_regs, pci_address, irq_evt, irq_resample_evt, mixer,
                 resources, assigned, delivered, master_written, encoder >>

\* The backend calls back for samples of a stream: it takes the stream and
\* looks at its state.  A stream that is not Running gets silence and the
\* callback is over; on a Running one the transfer is under way.
BackendCallback ==
    /\ ~Aborted
    /\ BarsAllocated
    /\ \E func \in Streams, need \in Requests :
        /\ callback[func].pc = "idle"
        /\ IF FuncRegs(bus_master, func).state = "Running"
           THEN /\ callback' = [callback EXCEPT ![func] = [pc |-> "transfer", need |-> need]]
                /\ bus_master' = bus_master
           ELSE /\ callback' = callback
                /\ bus_master' = callback_silence(bus_master, func)
        /\ last' = Op("callback", StreamBase(func), << need >>)
    /\ events' = << >>
    /\ buf' = << >>
    /\ ret' = Unit
    /\ ShellUntouched

\* The callback moves the samples and lets go of the stream.
BackendTransfer ==
    /\ \E func \in Streams :
        /\ callback[func].pc = "transfer"
        /\ bus_master' = callback_transfer(bus_master, func, callback[func].need)
        /\ callback' = [callback EXCEPT ![func] = [pc |-> "idle", need |-> 0]]
        /\ last' = Op("callback_transfer", StreamBase(func), << callback[func].need >>)
    /\ events' = << >>
    /\ buf' = << >>
    /\ ret' = Unit
    /\ ShellUntouched

\* The device as the machine sets it up before the guest runs (tests::create,
\* and the interrupt the machine assigns): constructed, given its address and
\* a pair of interrupt handles, its BARs allocated from an empty pool.
InitEngine ==
    LET addressed == assign_address(Ac97Dev_new, CHOOSE a \in PciAddresses : TRUE)
        wired == assign_irq(addressed, EventFd("irq", 1), EventFd("resample", 1), 5, "IntA")
        out == allocate_io_bars([wired EXCEPT !.events = << >>], {})
    IN  /\ config_regs = out.self.config_regs
        /\ pci_address = out.self.pci_address
        /\ irq_evt = out.self.irq_evt
        /\ irq_resample_evt = out.self.irq_resample_evt
        /\ bus_master = out.self.bus_master
        /\ mixer = out.self.mixer
        /\ resources = out.resources
        /\ last = Op("allocate_io_bars", 0, << >>)
        /\ events = << >>
        /\ buf = << >>
        /\ ret = out.ret
        /\ assigned = 1
        /\ delivered = 0
        /\ master_written = FALSE
        /\ callback = [func \in Streams |-> [pc |-> "idle", need |-> 0]]
        /\ encoder = Encoder_new

\* The device with its BARs allocated, the guest driving the two streams and
\* the backend calling back on its own thread.
NextEngine ==
    \/ WriteBarStream
    \/ ReadBarStream
    \/ BackendCallback
    \/ BackendTransfer

SpecEngine == InitEngine /\ [][NextEngine]_vars

\* The commands given to the encoder: each command type of the protocol, from
\* the capability query (0x100) to the setting of a control (0x10c), on each
\* stream.
StreamIds == 0 .. 7
VideoCmds == [type : 256 .. 268, stream_id : StreamIds]

\* What the calls on the encoder leave alone: the audio device.
DeviceUntouched ==
    UNCHANGED << config_regs, pci_address, irq_evt, irq_resample_evt, bus_master,
                 mixer, resources, events, buf, assigned, delivered,
                 master_written, callback >>

ProcessCmd ==
    /\ \E cmd \in VideoCmds :
        LET r == process_cmd(encoder, cmd)
        IN  /\ encoder' = r.self
            /\ ret' = r.ret
            /\ last' = Op("process_cmd", cmd.stream_id, << cmd.type >>)
    /\ DeviceUntouched

ProcessEventFd ==
    /\ \E stream_id \in StreamIds :
        LET r == process_event_fd(encoder, stream_id)
        IN  /\ encoder' = r.self
            /\ ret' = r.ret
            /\ last' = Op("process_event_fd", stream_id, << >>)
    /\ DeviceUntouched

TakeResourceIdToNotifyEos ==
    /\ \E stream_id \in StreamIds :
        LET r == take_resource_id_to_notify_eos(encoder, stream_id)
        IN  /\ encoder' = r.self
            /\ ret' = r.ret
            /\ last' = Op("take_resource_id_to_notify_eos", stream_id, << >>)
    /\ DeviceUntouched

\* The encoder, called in any order.
NextEncoder ==
    \/ ProcessCmd
    \/ ProcessEventFd
    \/ TakeResourceIdToNotifyEos

SpecEncoder == Init /\ [][NextEncoder]_vars

\* The device on a pool it has to itself.
Next ==
    \/ AssignAddress
    \/ AssignIrq
    \/ AllocateIoBars
    \/ ReadConfigRegister
    \/ WriteConfigRegister
    \/ ReadBar
    \/ WriteBar

Spec == Init /\ [][Next]_vars

\* The device on a pool it shares with other devices, and the guest's accesses
\* to the windows that result.
NextAlloc ==
    \/ AssignAddress
    \/ AllocateIoBars
    \/ OtherDeviceAllocates
    \/ ReadBar
    \/ WriteBar

SpecAlloc == Init /\ [][NextAlloc]_vars

(***************************************************************************)
(* The claims.                                                             *)
(***************************************************************************)
\* The two windows, as the BAR registers of configuration space place them.
MixerWindow(addr) ==
    /\ get_bar_addr(config_regs, 0) <= addr
    /\ addr < get_bar_addr(config_regs, 0) + MIXER_REGS_SIZE

MasterWindow(addr) ==
    /\ get_bar_addr(config_regs, 1) <= addr
    /\ addr < get_bar_addr(config_regs, 1) + MASTER_REGS_SIZE

BarAccess(op) == op \in {"read_bar", "write_bar"}

\* C1: over any sequence of assign_irq calls and BAR reads and writes on one
\* device, the interrupt handles are delivered to the bus-master engine
\* (set_irq_event_fd) at most once.
\* Violated: assign_irq, a bus-master write, assign_irq again and another
\* bus-master write deliver twice.
C1_DeliveredAtMostOnce == delivered <= 1

\* The collaborator calls that write an engine register.
RegisterWrites == {"writeb", "writew", "writel"}

\* After a write_bar that found a pair of handles pending: the pair was given to
\* the engine by the first call the handler made, hence before any register
\* write of that call, and by no later call; the pending slots are empty.
HandedOverFirst ==
    /\ events' # << >>
    /\ events'[1] = Call("set_irq_event_fd", << irq_evt[1], irq_resample_evt[1] >>)
    /\ \A i \in DOMAIN events' : i > 1 => events'[i].fn # "set_irq_event_fd"
    /\ bus_master'.irq_evt = irq_evt
    /\ bus_master'.irq_resample_evt = irq_resample_evt
    /\ irq_evt' = None
    /\ irq_resample_evt' = None

PendingPair == irq_evt # None /\ irq_resample_evt # None

C3_AssignIrqDoesNotForward ==
    /\ last.op = "assign_irq" =>
          /\ config_regs.irq_line = last.arg % 256
          /\ config_regs.irq_pin = last.pin
    /\ (assigned > 0 /\ ~master_written) =>
          /\ bus_master.irq_evt = None
          /\ bus_master.irq_resample_evt = None
          /\ delivered = 0
          /\ irq_evt = Some(EventFd("irq", assigned))
          /\ irq_resample_evt = Some(EventFd("resample", assigned))

\* C3 witness: after assign_irq the guest has read a bus-master register, and
\* the pair is still pending.
C3_Witness ==
    /\ assigned > 0
    /\ ~master_written
    /\ last.op = "read_bar"
    /\ events = << Call("readb", << last.arg - get_bar_addr(config_regs, 1) >>) >>
    /\ irq_evt # None
    /\ bus_master.irq_evt = None

\* C4: an access to the mixer window whose width is not 2 bytes changes no
\* mixer register: the register bank is the same before and after, no word is
\* stored, and a read leaves the caller's buffer as it was.
C4_MixerBadWidthIsDropped ==
    [][ (/\ BarAccess(last'.op)
         /\ MixerWindow(last'.arg)
         /\ Len(last'.data) # 2)
        => /\ mixer' = mixer
           /\ \A i \in DOMAIN events' : events'[i].fn # "mixer.writew"
           /\ last'.op = "read_bar" => buf' = last'.data ]_vars

\* C4 witness: a 3-byte write to a mixer register that holds a word.
C4_Witness ==
    /\ last.op = "write_bar"
    /\ MixerWindow(last.arg)
    /\ Len(last.data) = 3
    /\ Mixer_readw(mixer, last.arg - get_bar_addr(config_regs, 0)) # 0

\* C5: a 2-byte write_bar of v (little-endian) at a valid offset of the mixer
\* window, followed by a 2-byte read_bar of the same address, reads v back.
C5_MixerRoundTrip ==
    [][ (/\ last.op = "write_bar"
         /\ Len(last.data) = 2
         /\ MixerWindow(last.arg)
         /\ MixerOffsetValid(last.arg - get_bar_addr(config_regs, 0))
         /\ last'.op = "read_bar"
         /\ last'.arg = last.arg
         /\ Len(last'.data) = 2)
        => buf' = last.data ]_vars

\* C5 witness: the read that follows the write has returned the word written.
C5_Witness ==
    /\ last.op = "read_bar"
    /\ MixerWindow(last.arg)
    /\ buf = Word
    /\ events = << Call("mixer.readw", << last.arg - get_bar_addr(config_regs, 0) >>) >>

\* C6: a read_bar or write_bar whose address lies in neither window is a no-op:
\* the mixer registers, the engine and the pending handles are unchanged, no
\* collaborator is called, the read buffer is not modified, and the call
\* returns normally.
C6_OutsideAccessIsNoOp ==
    [][ (/\ BarAccess(last'.op)
         /\ ~MixerWindow(last'.arg)
         /\ ~MasterWindow(last'.arg))
        => /\ UNCHANGED << mixer, bus_master, irq_evt, irq_resample_evt,
                           config_regs, pci_address, resources, delivered >>
           /\ events' = << >>
           /\ last'.op = "read_bar" => buf' = last'.data
           /\ ret' = Unit ]_vars

\* C6 witness: a write outside both windows while a pair of handles is pending
\* and the BARs are allocated.
C6_Witness ==
    /\ last.op = "write_bar"
    /\ ~MixerWindow(last.arg)
    /\ ~MasterWindow(last.arg)
    /\ config_regs.bar_used = << TRUE, TRUE >>
    /\ PendingPair

\* The engine's registers.
Registers(bm) == << bm.bdbar, bm.lvi, bm.sr >>

\* The register handlers of the engine a handler called, in order.
Handled(evs) == SelectSeq(evs, LAMBDA e : e.fn # "set_irq_event_fd")

\* What C7 says of an access at offset `off` of the bus-master window.
WidthDispatch(off) ==
    LET n == Len(last'.data)
        h == Handled(events')
        rw == IF last'.op = "read_bar" THEN "read" ELSE "write"
        fn == CASE n = 1 -> rw \o "b" [] n = 2 -> rw \o "w" [] n = 4 -> rw \o "l"
                [] OTHER -> "none"
    IN  IF n \in {1, 2, 4}
        THEN Len(h) = 1 /\ h[1].fn = fn /\ h[1].args[1] = off
        ELSE /\ h = << >>
             /\ Registers(bus_master') = Registers(bus_master)
             /\ last'.op = "read_bar" => buf' = last'.data

CanSatisfyBoth ==
    \E a0 \in FreeAligned(resources, MIXER_REGS_SIZE, MIXER_REGS_SIZE) :
        \E a1 \in FreeAligned(resources, MASTER_REGS_SIZE, MASTER_REGS_SIZE) :
            ~Overlaps(a0, MIXER_REGS_SIZE, a1, MASTER_REGS_SIZE)

\* C9: after assign_address, allocate_io_bars on a fresh device with an
\* allocator that can satisfy both requests succeeds and returns exactly two
\* ranges in order, (BAR0 address, MIXER_REGS_SIZE) then (BAR1 address,
\* MASTER_REGS_SIZE), each address aligned to its own size, BAR0 registered
\* as the mixer window and BAR1 as the bus-master window.
C9_AllocateIoBarsSucceeds ==
    [][ (/\ last'.op = "allocate_io_bars"
         /\ pci_address # None
         /\ config_regs.bar_used = << FALSE, FALSE >>
         /\ CanSatisfyBoth)
        => /\ ret'.kind = "Ok"
           /\ Len(ret'.val) = 2
           /\ ret'.val[1][2] = MIXER_REGS_SIZE
           /\ ret'.val[2][2] = MASTER_REGS_SIZE
           /\ ret'.val[1][1] % MIXER_REGS_SIZE = 0
           /\ ret'.val[2][1] % MASTER_REGS_SIZE = 0
           /\ config_regs'.bar_used = << TRUE, TRUE >>
           /\ get_bar_addr(config_regs', 0) = ret'.val[1][1]
           /\ get_bar_addr(config_regs', 1) = ret'.val[2][1]
           /\ resources' = resources \cup
                 {[addr |-> ret'.val[1][1], size |-> MIXER_REGS_SIZE,
                   alloc |-> PciBar(pci_address[1], 0)],
                  [addr |-> ret'.val[2][1], size |-> MASTER_REGS_SIZE,
                   alloc |-> PciBar(pci_address[1], 1)]}
           /\ Cardinality(resources') = Cardinality(resources) + 2 ]_vars

\* C9 witness: allocate_io_bars has succeeded on a pool another device had
\* already taken a range from.
C9_Witness ==
    /\ last.op = "allocate_io_bars"
    /\ ret.kind = "Ok"
    /\ Cardinality(resources) = 3

\* C10: allocate_io_bars before any assign_address is fatal: the call panics,
\* it does not return an error value, and it does so before any range is
\* requested from the allocator and before any BAR is registered.
C10_AllocateWithoutAddressPanics ==
    [][ (/\ last'.op = "allocate_io_bars"
         /\ pci_address = None)
        => /\ ret'.kind = "Panic"
           /\ resources' = resources
           /\ config_regs' = config_regs
           /\ events' = << >> ]_vars

\* C10 witness: the call has panicked on a device without an address, the
\* pool and the BAR registers being as they were.
C10_Witness ==
    /\ Aborted
    /\ last.op = "allocate_io_bars"
    /\ pci_address = None
    /\ config_regs.bar_used = << FALSE, FALSE >>

\* What allocate_io_bars returns on a device that has an address, by the
\* answers of the allocator and of configuration space: None where it succeeds.
ExpectedError ==
    LET m0 == allocate_with_align(resources, MIXER_REGS_SIZE, MIXER_REGS_SIZE)
        res0 == Allocated(resources, m0[1], MIXER_REGS_SIZE, PciBar(pci_address[1], 0))
        m1 == allocate_with_align(res0, MASTER_REGS_SIZE, MASTER_REGS_SIZE)
    IN  CASE m0 = None -> Some(Err("IoAllocationFailed", MIXER_REGS_SIZE))
          [] m0 # None /\ config_regs.bar_used[1] ->
                Some(Err("IoRegistrationFailed", m0[1]))
          [] m0 # None /\ ~config_regs.bar_used[1] /\ m1 = None ->
                Some(Err("IoAllocationFailed", MASTER_REGS_SIZE))
          [] m0 # None /\ ~config_regs.bar_used[1] /\ m1 # None
                /\ config_regs.bar_used[2] ->
                Some(Err("IoRegistrationFailed", m1[1]))
          [] OTHER -> None

\* C11: allocate_io_bars fails with IoAllocationFailed carrying the requested
\* size whenever the allocator cannot satisfy one of the two ranges, and with
\* IoRegistrationFailed carrying the allocated address whenever configuration
\* space rejects a BAR (its index is already registered); in neither case does
\* it return a list of ranges.
C11_AllocateIoBarsErrors ==
    [][ (/\ last'.op = "allocate_io_bars"
         /\ pci_address # None
         /\ ExpectedError # None)
        => /\ ret' = ExpectedError[1]
           /\ ret'.kind # "Ok" ]_vars

\* C11 witness: one call has failed for want of room for the bus-master range,
\* and a later one because BAR 0 was already registered.
C11_Witness ==
    /\ last.op = "allocate_io_bars"
    /\ ret.kind = "Err"
    /\ ret.val[1] = "IoRegistrationFailed"
    /\ config_regs.bar_used = << TRUE, FALSE >>

\* C12: the base address of each window is assigned once and is immutable
\* afterwards: once allocate_io_bars has succeeded, no later operation (a
\* repeated allocate_io_bars, write_config_register, assign_irq, a BAR access)
\* changes the bar0 / bar1 bases that read_bar / write_bar classify by.
C12_BarBasesImmutable ==
    [][ config_regs.bar_used = << TRUE, TRUE >>
        => /\ get_bar_addr(config_regs', 0) = get_bar_addr(config_regs, 0)
           /\ get_bar_addr(config_regs', 1) = get_bar_addr(config_regs, 1)
           /\ config_regs'.bar_used = << TRUE, TRUE >> ]_vars

\* C12 witness: allocate_io_bars was called again after it had succeeded, and
\* both windows are where the first call put them.
C12_Witness ==
    /\ last.op = "allocate_io_bars"
    /\ ret.kind = "Err"
    /\ config_regs.bar_used = << TRUE, TRUE >>
    /\ get_bar_addr(config_regs, 0) = PoolBase

\* The engine's view of the mixer is the one the register bank gives.
MixerViewFresh == bus_master.mixer_settings = MixerSettings(mixer)

\* C13: the shell applies the mixer settings to the engine after every write to
\* the mixer window, before write_bar returns: update_mixer_settings is the
\* last call of such a write, made after the word was stored, and in every
\* state between guest accesses the engine's view agrees with the register
\* bank.
C13_MixerSettingsApplied ==
    /\ []MixerViewFresh
    /\ [][ (/\ last'.op = "write_bar"
            /\ MixerWindow(last'.arg))
           => /\ events' # << >>
              /\ events'[Len(events')] = Call("update_mixer_settings", << >>)
              /\ \A i \in DOMAIN events' :
                    events'[i].fn = "update_mixer_settings" => i = Len(events')
              /\ bus_master'.mixer_settings = MixerSettings(mixer') ]_vars

\* C13 witness: the guest has muted the master volume and the engine sees it.
C13_Witness ==
    /\ last.op = "write_bar"
    /\ MixerWindow(last.arg)
    /\ Mixer_readw(mixer, MIXER_MASTER_VOL_MUTE_02) = LeU16(Word)
    /\ bus_master.mixer_settings.mute
    /\ events[Len(events)].fn = "update_mixer_settings"

\* The value of a little-endian byte string: the sum of data[i] * 256^(i-1).
RECURSIVE LittleEndian(_)
LittleEndian(data) ==
    IF data = << >> THEN 0
    ELSE data[1] + 256 * LittleEndian(Tail(data))

\* Byte i (from 0, least significant first) of v.
ByteOf(v, i) == (v \div (256 ^ i)) % 256

\* What the engine returns for a read of n bytes at offset off.
EngineValue(off, n) ==
    IF n = 2 THEN BM_readw(bus_master, off) ELSE BM_readl(bus_master, off)

\* C18: bus-master accesses are little-endian: a 2-byte or 4-byte write passes
\* the engine the sum of data[i] * 256^i, a 2-byte or 4-byte read fills data[i]
\* with byte i, least significant first, of the value the engine returns, and
\* decoding the bytes a read produced gives the engine's value again.
C18_BusMasterLittleEndian ==
    [][ (/\ BarAccess(last'.op)
         /\ MasterWindow(last'.arg)
         /\ ~MixerWindow(last'.arg)
         /\ Len(last'.data) \in {2, 4})
        => LET off == last'.arg - get_bar_addr(config_regs, 1)
               n == Len(last'.data)
           IN  IF last'.op = "write_bar"
               THEN Handled(events')[1].args = << off, LittleEndian(last'.data) >>
               ELSE /\ Len(buf') = n
                    /\ \A i \in 1 .. n : buf'[i] = ByteOf(EngineValue(off, n), i - 1)
                    /\ LittleEndian(buf') = EngineValue(off, n) ]_vars

\* C18 witness: a 4-byte read of the descriptor-base register has returned the
\* bytes of 0x12345678, least significant first.
C18_Witness ==
    /\ last.op = "read_bar"
    /\ last.arg - get_bar_addr(config_regs, 1) = PO_BDBAR_10
    /\ ~MixerWindow(last.arg)
    /\ buf = << 120, 86, 52, 18 >>
    /\ BM_readl(bus_master, PO_BDBAR_10) = 305419896

\* C19: in every reachable state the two pending slots are paired: irq_evt is
\* present if and only if irq_resample_evt is.
C19_PendingSlotsPaired == (irq_evt = None) <=> (irq_resample_evt = None)

\* C19 witness: a second pair is pending after the first was handed over.
C19_Witness ==
    /\ delivered = 1
    /\ irq_evt # None
    /\ irq_resample_evt # None
    /\ bus_master.irq_evt # None

\* What C20 says of a write of a width the engine does not accept.
HandOffWithoutWrite ==
    /\ HandedOverFirst
    /\ Handled(events') = << >>
    /\ Registers(bus_master') = Registers(bus_master)

C17_EncoderIsStub ==
    /\ encoder = Encoder_new
    /\ last.op = "process_cmd"
          => ret = [kind |-> "Err", val |-> << "InvalidOperation" >>]
    /\ last.op \in {"process_event_fd", "take_resource_id_to_notify_eos"}
          => ret = [kind |-> "Option", val |-> None]

\* C17 witness: a capability query on stream 3 was refused.
C17_Witness ==
    /\ last = Op("process_cmd", 3, << 256 >>)
    /\ ret.kind = "Err"

\* A stream's registers before and after the step.
Before(func) == FuncRegs(bus_master, func)
After(func) == FuncRegs(bus_master', func)

\* The samples of the descriptors 0 .. lvi of a ring.
RECURSIVE RingSamples(_)
RingSamples(lvi) ==
    Descriptor(0, lvi).len + (IF lvi = 0 THEN 0 ELSE RingSamples(lvi - 1))

\* The step is a guest write to a register of the stream.
GuestWritesStream(func) ==
    /\ last'.op = "write_bar"
    /\ MasterWindow(last'.arg)
    /\ ~MixerWindow(last'.arg)
    /\ FuncOf(last'.arg - get_bar_addr(config_regs, 1)) = func

\* C14: on a running stream with a ring of L descriptors and LVI = L - 1, the
\* stream is Stopped and the DMA-halted bit is set exactly when the samples of
\* all L descriptors have been moved (the position has then reached 0 with the
\* current index at the last valid one), not before; and the bit stays set
\* until a guest write to the stream clears it.
C14_RingExhaustionStops ==
    [][ /\ last'.op = "callback_transfer" =>
            LET func == FuncOf(last'.arg)
                total == RingSamples(Before(func).lvi)
            IN  /\ After(func).xfer <= total
                /\ (After(func).xfer = total) <=> (After(func).state = "Stopped")
                /\ After(func).state = "Stopped" =>
                      /\ HasBit(After(func).sr, SR_DCH)
                      /\ After(func).picb = 0
                      /\ After(func).civ = After(func).lvi
                /\ After(func).state = "Running" => ~HasBit(After(func).sr, SR_DCH)
        /\ \A func \in Streams :
              (HasBit(Before(func).sr, SR_DCH) /\ ~HasBit(After(func).sr, SR_DCH))
                 => GuestWritesStream(func) ]_vars

\* C14 witness: the playback stream has moved the three samples of its two
\* descriptors and is halted, its run bit still set.
C14_Witness ==
    /\ last.op = "callback_transfer"
    /\ FuncOf(last.arg) = "PO"
    /\ bus_master.lvi = 1
    /\ bus_master.po.xfer = RingSamples(1)
    /\ bus_master.po.state = "Stopped"
    /\ HasBit(bus_master.sr, SR_DCH)
    /\ HasBit(bus_master.po.cr, CR_RPBM)

\* The descriptors with interrupt-on-completion that a transfer step finished.
CompletedWithIoc(func) ==
    { i \in Before(func).civ .. After(func).civ :
        /\ i < After(func).civ \/ After(func).picb = 0
        /\ Descriptor(Before(func).bdbar, i).ioc }

Asserts(signals) ==
    Cardinality({ i \in DOMAIN signals : signals[i].fn = "irq_assert" })

\* C15: a descriptor with interrupt-on-completion causes exactly one assert
\* signal each time it is completed (and a descriptor without causes none); a
\* guest write of 1 to the completion bit of a stream's status register clears
\* the bit, and de-asserts the shared line if and only if no other stream has
\* an interrupt pending.
C15_InterruptPerCompletion ==
    [][ /\ last'.op = "callback_transfer" =>
            LET func == FuncOf(last'.arg)
            IN  /\ Asserts(bus_master'.signals) = Cardinality(CompletedWithIoc(func))
                /\ CompletedWithIoc(func) # {} =>
                      HasBit(After(func).sr, SR_BCIS) /\ bus_master'.irq_level
        /\ \A func \in Streams :
              (/\ GuestWritesStream(func)
               /\ RegOf(last'.arg - get_bar_addr(config_regs, 1)) = PI_SR_06
               /\ Len(last'.data) = 2
               /\ HasBit(LittleEndian(last'.data), SR_BCIS)
               /\ HasBit(Before(func).sr, SR_BCIS))
              => /\ ~HasBit(After(func).sr, SR_BCIS)
                 /\ bus_master.irq_level
                 /\ bus_master'.irq_level =
                       (\E other \in Streams \ {func} : IntPending(Before(other)))
                 /\ (\E i \in DOMAIN bus_master'.signals :
                        bus_master'.signals[i].fn = "irq_deassert")
                       = ~(\E other \in Streams \ {func} : IntPending(Before(other))) ]_vars

\* C15 witness: the guest has acknowledged the playback stream's interrupt
\* while the capture stream's is pending: the line stays asserted.
C15_Witness ==
    /\ last.op = "write_bar"
    /\ last.arg - get_bar_addr(config_regs, 1) = PO_SR_16
    /\ ~HasBit(bus_master.sr, SR_BCIS)
    /\ HasBit(bus_master.pi.sr, SR_BCIS)
    /\ bus_master.irq_level
    /\ bus_master.po.xfer > 0

\* C16: clearing the run bit stops the stream for all later transfers, also
\* when a callback of the stream is under way: the write takes effect when it
\* is made, samples are only ever moved on a Running stream, and a callback
\* that starts on a stream that is not Running moves no samples and leaves
\* CIV and PICB as they are.
C16_StopIsEffective ==
    [][ /\ \A func \in Streams :
              (/\ GuestWritesStream(func)
               /\ RegOf(last'.arg - get_bar_addr(config_regs, 1)) = PI_CR_0B
               /\ Len(last'.data) = 1
               /\ ~HasBit(last'.data[1], CR_RPBM))
              => /\ After(func).state = "Stopped"
                 /\ After(func).civ = Before(func).civ
                 /\ After(func).picb = Before(func).picb
        /\ last'.op = "callback_transfer" =>
              Before(FuncOf(last'.arg)).state = "Running"
        /\ (last'.op = "callback" /\ Before(FuncOf(last'.arg)).state # "Running") =>
              /\ After(FuncOf(last'.arg)) = Before(FuncOf(last'.arg))
              /\ bus_master'.signals = << >>
              /\ callback'[FuncOf(last'.arg)].pc = "idle"
        /\ \A func \in Streams :
              Before(func).state # "Running" =>
                 /\ After(func).xfer = Before(func).xfer \/ After(func).state = "Running"
                 /\ After(func).state # "Running" =>
                       /\ After(func).civ = Before(func).civ
                       /\ After(func).picb = Before(func).picb ]_vars

\* C16 witness: a callback has come for the playback stream after the guest
\* stopped it in the middle of a buffer, while the capture stream is running.
C16_Witness ==
    /\ last.op = "callback"
    /\ FuncOf(last.arg) = "PO"
    /\ bus_master.po.state = "Stopped"
    /\ ~HasBit(bus_master.po.cr, CR_RPBM)
    /\ bus_master.po.picb = 1
    /\ bus_master.po.civ = 1
    /\ bus_master.pi.state = "Running"
    /\ callback["PO"].pc = "idle"

\* The mixer range the allocator will hand to allocate_io_bars, if any.
MixerRangeNext == allocate_with_align(resources, MIXER_REGS_SIZE, MIXER_REGS_SIZE)

\* No bus-master range is left once the mixer range is taken, or BAR 1 is
\* already registered: the second half of allocate_io_bars will fail.
MasterBarWillFail ==
    \/ allocate_with_align(
          Allocated(resources, MixerRangeNext[1], MIXER_REGS_SIZE,
                    PciBar(pci_address[1], 0)),
          MASTER_REGS_SIZE, MASTER_REGS_SIZE) = None
    \/ config_regs.bar_used[2]

\* C21: allocate_io_bars is not atomic on failure: when BAR 0 is allocated and
\* registered by a call and the allocation or registration of BAR 1 then
\* fails, the call returns the error while BAR 0 stays allocated in the
\* allocator and registered in configuration space; the state is not the one
\* before the call.
C21_AllocateIoBarsNotAtomic ==
    [][ (/\ last'.op = "allocate_io_bars"
         /\ pci_address # None
         /\ ~config_regs.bar_used[1]
         /\ MixerRangeNext # None
         /\ MasterBarWillFail)
        => /\ ret'.kind = "Err"
           /\ [addr |-> MixerRangeNext[1], size |-> MIXER_REGS_SIZE,
               alloc |-> PciBar(pci_address[1], 0)] \in resources'
           /\ config_regs'.bar_used[1]
           /\ get_bar_addr(config_regs', 0) = MixerRangeNext[1]
           /\ resources' # resources
           /\ config_regs' # config_regs ]_vars

\* C21 witness: a call has failed for want of room for the bus-master range
\* and has left BAR 0 registered, its range taken, and BAR 1 unregistered.
C21_Witness ==
    /\ last.op = "allocate_io_bars"
    /\ ret = Err("IoAllocationFailed", MASTER_REGS_SIZE)
    /\ config_regs.bar_used = << TRUE, FALSE >>
    /\ \E r \in resources :
          /\ r.alloc = PciBar(pci_address[1], 0)
          /\ r.addr = get_bar_addr(config_regs, 0)

=============================================================================
